---- MODULE Spec2Model ----
(***************************************************************************)
(* Mapping & Rating Audit Engine: batched classification and rating of     *)
(* exam questions against a reference taxonomy.                            *)
(*                                                                         *)
(* One run of an engine entry point is a sequence of oracle exchanges.     *)
(* Each action is one oracle call together with everything the code does   *)
(* with its outcome; the step that leaves the batch loop also builds the   *)
(* returned result object.                                                 *)
(*                                                                         *)
(* Numbers: confidences are thousandths (0.9 = 900).                       *)
(***************************************************************************)
EXTENDS Integers, Sequences, FiniteSets, TLC

(***************************************************************************)
(* Bounds of the model                                                     *)
(***************************************************************************)
MaxRows == 2          \* rows of a question file under the free oracle
MaxBatch == 2         \* batch sizes 1..MaxBatch under the free oracle
MaxDeviations == 2    \* departures of the free oracle from the nominal answer to batch calls, per run
MaxSingleDeviations == 1  \* the same for its answers to single-item calls
MaxEcho == 1          \* question numbers the free oracle may echo as question_id
MaxScriptRows == 5    \* rows of a question file under the scripted oracle
MaxFailAt == 2        \* scripted oracle: which batch call fails (0 = none)
MaxOtherRows == 1     \* stem or blank rows of a question file under the scripted oracle
MaxDatasetRows == 2   \* rows of a dataset handed to apply_and_export
MaxRecs == 2          \* recommendations handed to apply_and_export
MaxOddRecs == 1       \* of these, the ones that miss a key or hold an empty code
MaxLongRows == 11     \* rows of a question file sent to an HTTP endpoint
MaxSupplied == 11     \* the largest batch_size a request carries
MaxBelow == 1         \* how far below zero the batch_size of a request goes
MaxClock == 2         \* seconds that pass while two workers export

(***************************************************************************)
(* Program constants                                                       *)
(***************************************************************************)
MinBatchSize == 1
MaxBatchSize == 10
DefaultConfidence == 0
MultiDefaultConfidence == 850

Absent == "<absent>"          \* a key the oracle's JSON object does not hold
NoConf == -1                  \* an absent numeric field
NoId == 0                     \* an absent question_id echo
NoResult == [status |-> "none"]
NoExport == [status |-> "none"]
NoCaller == [endpoint |-> "none"]
Workers == {1, 2}

OBJECTIVES_REFERENCE == {"O1", "O2", "O3", "O4", "O5", "O6"}

Min(a, b) == IF a < b THEN a ELSE b

RECURSIVE SumSeq(_)
SumSeq(s) == IF s = <<>> THEN 0 ELSE Head(s) + SumSeq(Tail(s))

RECURSIVE SumFn(_)
SumFn(f) ==
    IF DOMAIN f = {} THEN 0
    ELSE LET k == CHOOSE x \in DOMAIN f : TRUE
         IN f[k] + SumFn([y \in DOMAIN f \ {k} |-> f[y]])

Range(s) == {s[i] : i \in DOMAIN s}

SeqsUpTo(S, n) == UNION {[1..k -> S] : k \in 0..n}

(***************************************************************************)
(* The question file: one row per question.  The question number of a row  *)
(* is its position; a stem row carries "(Stem)" in its number.             *)
(***************************************************************************)
RowKinds == {"question", "stem", "blank"}

QuestionFiles(n) == SeqsUpTo(RowKinds, n)

\* the files that hold at most k rows that are not eligible questions
MostlyQuestions(n, k) ==
    {df \in QuestionFiles(n) :
        Cardinality({i \in DOMAIN df : df[i] # "question"}) <= k}

ScriptedFiles == MostlyQuestions(MaxScriptRows, MaxOtherRows)

\* variant: rows without text are kept
RECURSIVE PrepareFromKeepsBlank(_, _)
PrepareFromKeepsBlank(questions_df, idx) ==
    IF idx > Len(questions_df) THEN <<>>
    ELSE IF questions_df[idx] = "stem" THEN PrepareFromKeepsBlank(questions_df, idx + 1)
    ELSE <<idx>> \o PrepareFromKeepsBlank(questions_df, idx + 1)

\* variant: stem rows are kept
RECURSIVE PrepareFromKeepsStem(_, _)
PrepareFromKeepsStem(questions_df, idx) ==
    IF idx > Len(questions_df) THEN <<>>
    ELSE IF questions_df[idx] = "blank" THEN PrepareFromKeepsStem(questions_df, idx + 1)
    ELSE <<idx>> \o PrepareFromKeepsStem(questions_df, idx + 1)

\* the loop that prepares questions_list: stems and rows without text are skipped
RECURSIVE PrepareFrom(_, _)
PrepareFrom(questions_df, idx) ==
    IF idx > Len(questions_df) THEN <<>>
    ELSE IF questions_df[idx] = "stem" THEN PrepareFrom(questions_df, idx + 1)
    ELSE IF questions_df[idx] = "question"
         THEN <<idx>> \o PrepareFrom(questions_df, idx + 1)
         ELSE PrepareFrom(questions_df, idx + 1)

PrepareQuestionsList(questions_df) == PrepareFrom(questions_df, 1)

\* variant: the loop advances by one question
NextBatchIdxByOne(batch_idx, batch_size) == batch_idx + 1

\* the next value of batch_idx in range(0, len(questions_list), batch_size)
NextBatchIdx(batch_idx, batch_size) == batch_idx + batch_size

\* questions_list[batch_idx : batch_idx + batch_size]
BatchSlice(questions_list, batch_idx, batch_size) ==
    SubSeq(questions_list, batch_idx + 1,
           Min(batch_idx + batch_size, Len(questions_list)))

(***************************************************************************)
(* The reference file                                                      *)
(***************************************************************************)
AllDimensions == {"competency", "objective"}

FullReference == [d \in AllDimensions |->
                    IF d = "competency" THEN {"T1", "T2", "T3"} ELSE {"O1", "O2"}]
EmptyReference == [d \in AllDimensions |-> {}]
ReferenceFiles == {FullReference}

\* what _load_reference_data returns: the codes of the file, or {} when no row is recognised
LoadedReferences == {FullReference, EmptyReference}

KnownCode(dim) == IF dim = "competency" THEN "T1" ELSE "O1"

(***************************************************************************)
(* What the oracle returns.  An entry of a response array is a JSON value: *)
(* an object (obj = TRUE) whose keys may be absent, or some other value    *)
(* (obj = FALSE), on which .get raises.                                    *)
(***************************************************************************)
Entry(q, c, cf, j) ==
    [obj |-> TRUE, question_id |-> q, code |-> c, conf |-> cf, just |-> j]

Malformed ==
    [obj |-> FALSE, question_id |-> NoId, code |-> Absent, conf |-> NoConf, just |-> Absent]

EmptyObject == Entry(NoId, Absent, NoConf, Absent)

\* the free oracle's entries: the nominal entry and its one-field deviations
Nominal(dim) == Entry(NoId, KnownCode(dim), 900, "because")

FreeEntries(dim) ==
    {Entry(NoId, c, 900, "because") : c \in {KnownCode(dim), "X9", "", Absent}}
    \cup {Entry(NoId, KnownCode(dim), NoConf, "because"),
          Entry(NoId, KnownCode(dim), 900, Absent)}
    \cup {Entry(q, KnownCode(dim), 900, "because") : q \in 1..MaxEcho}
    \cup {EmptyObject, Malformed}

\* the objects the free oracle returns to a single-item prompt
SingleEntries(dim) ==
    {Nominal(dim), Entry(NoId, "", 900, "because"),
     Entry(NoId, KnownCode(dim), NoConf, "because"),
     Entry(NoId, KnownCode(dim), 900, Absent), EmptyObject}

\* response arrays of up to n entries, at most MaxDeviations of them not nominal
ArraysUpTo(entries, nominal, n) ==
    {ms \in SeqsUpTo(entries, n) :
        Cardinality({i \in DOMAIN ms : ms[i] # nominal}) <= MaxDeviations}

FreeArrays ==
    [d \in AllDimensions |->
        [n \in 0..(MaxBatch + 1) |-> ArraysUpTo(FreeEntries(d), Nominal(d), n)]]

\* the scripted oracle: the k-th eligible question gets Script[k] (cyclically)
Script == << [code |-> "T1", conf |-> 900],
             [code |-> "T1", conf |-> 800],
             [code |-> "T2", conf |-> 600] >>

ScriptAt(k) == Script[((k - 1) % Len(Script)) + 1]

ScriptEntry(q_num, k) == Entry(q_num, ScriptAt(k).code, ScriptAt(k).conf, "because")

\* dict.get(key, default)
Get(value, default) == IF value = Absent THEN default ELSE value
GetConf(value, default) == IF value = NoConf THEN default ELSE value

\* Python truthiness of a parsed single-item response: None and {} are falsy
IsEmptyObject(e) ==
    /\ e.obj
    /\ e.question_id = NoId /\ e.code = Absent /\ e.conf = NoConf /\ e.just = Absent

(***************************************************************************)
(* CoverageAggregator                                                      *)
(***************************************************************************)
\* variant: only keys already in the table are counted
IncrExistingOnly(counts, key) ==
    IF key \in DOMAIN counts THEN [counts EXCEPT ![key] = @ + 1] ELSE counts

\* coverage_counts[key] = coverage_counts.get(key, 0) + 1
Incr(counts, key) ==
    IF key \in DOMAIN counts
    THEN [counts EXCEPT ![key] = @ + 1]
    ELSE [k \in DOMAIN counts \cup {key} |-> IF k = key THEN 1 ELSE counts[k]]

\* if obj_id in coverage_counts: coverage_counts[obj_id] += 1
IncrKnown(counts, key) ==
    IF key \in DOMAIN counts THEN [counts EXCEPT ![key] = @ + 1] ELSE counts

\* if code: coverage_counts[dim][code] = ... + 1
IncrTruthy(counts, key) == IF key # "" THEN Incr(counts, key) ELSE counts

\* variant: a code counted once is still reported as a gap
GapsBelowTwo(reference, counts) ==
    {key \in reference : key \notin DOMAIN counts \/ counts[key] < 2}

\* gaps = [key for key in reference_data.keys() if key not in coverage_counts]
Gaps(reference, counts) == {key \in reference : key \notin DOMAIN counts}

\* gaps = [obj for obj, count in coverage_counts.items() if count == 0]
ZeroGaps(counts) == {key \in DOMAIN counts : counts[key] = 0}

EmptyCounts == [k \in {} |-> 0]

(***************************************************************************)
(* ResponseParser, single dimension (run_audit_batched)                    *)
(***************************************************************************)
\* variant: an entry that echoes the question_id of a batch item goes to that item
AlignedById(batch, mappings, i) ==
    IF mappings[i].question_id \in Range(batch) THEN mappings[i].question_id ELSE batch[i]

\* the batch item the i-th response entry is assigned to
AlignedItem(batch, mappings, i) == batch[i]

Recommendation(q_num, dim, mapping) ==
    [question_num |-> q_num,
     mapped |-> [d \in {dim} |-> Get(mapping.code, "")],
     confidence |-> GetConf(mapping.conf, DefaultConfidence),
     justification |-> Get(mapping.just, "")]

\* for i, mapping in enumerate(mappings): if i < len(batch): ...
\* stops with raised = TRUE at the first entry on which .get raises
RECURSIVE ProcessMappings(_, _, _, _, _, _)
ProcessMappings(batch, mappings, i, dim, recs, cov) ==
    IF i > Len(mappings) \/ i > Len(batch)
    THEN [recs |-> recs, cov |-> cov, raised |-> FALSE]
    ELSE IF ~ mappings[i].obj
    THEN [recs |-> recs, cov |-> cov, raised |-> TRUE]
    ELSE ProcessMappings(batch, mappings, i + 1, dim,
            Append(recs, Recommendation(AlignedItem(batch, mappings, i), dim, mappings[i])),
            [cov EXCEPT ![dim] = Incr(@, Get(mappings[i].code, ""))])

(***************************************************************************)
(* ResponseParser, objectives engine (map_questions)                       *)
(***************************************************************************)
ObjectiveRecommendation(q_num, mapping) ==
    [question_num |-> q_num,
     mapped |-> [d \in {"objective"} |-> Get(mapping.code, "O1")],
     confidence |-> GetConf(mapping.conf, DefaultConfidence),
     justification |-> Get(mapping.just, "")]

RECURSIVE ProcessObjectiveMappings(_, _, _, _, _)
ProcessObjectiveMappings(batch, mappings, i, recs, cov) ==
    IF i > Len(mappings) \/ i > Len(batch)
    THEN [recs |-> recs, cov |-> cov, raised |-> FALSE]
    ELSE IF ~ mappings[i].obj
    THEN [recs |-> recs, cov |-> cov, raised |-> TRUE]
    ELSE ProcessObjectiveMappings(batch, mappings, i + 1,
            Append(recs, ObjectiveRecommendation(batch[i], mappings[i])),
            [cov EXCEPT !["objective"] = IncrKnown(@, Get(mappings[i].code, "O1"))])

(***************************************************************************)
(* Multi-dimension entries and parser (run_audit_batched_multi)            *)
(* mapping[dim] is an object {code, confidence}, a bare string, or absent. *)
(***************************************************************************)
Sub(k, c, cf) == [kind |-> k, code |-> c, conf |-> cf]

MultiEntry(subs, j) == [obj |-> TRUE, sub |-> subs, just |-> j]

NominalSubs == [d \in AllDimensions |-> Sub("dict", KnownCode(d), 900)]

MultiNominal == MultiEntry(NominalSubs, "because")

MultiMalformed == [obj |-> FALSE, sub |-> NominalSubs, just |-> Absent]

SubDeviations(d) ==
    {Sub("dict", "", 900), Sub("dict", KnownCode(d), NoConf),
     Sub("absent", Absent, NoConf), Sub("str", KnownCode(d), NoConf)}

MultiEntries(dims) ==
    {MultiNominal, MultiEntry(NominalSubs, Absent), MultiMalformed}
    \cup UNION {{MultiEntry([NominalSubs EXCEPT ![d] = dev], "because") :
                    dev \in SubDeviations(d)} : d \in Range(dims)}

\* dim_data = mapping.get(dim, {}); code and conf as the two branches read them
SubCode(sub) ==
    CASE sub.kind = "dict" -> Get(sub.code, "")
      [] sub.kind = "str" -> sub.code
      [] OTHER -> ""

SubConf(sub) ==
    CASE sub.kind = "dict" -> GetConf(sub.conf, MultiDefaultConfidence)
      [] OTHER -> MultiDefaultConfidence

\* float(conf) if conf else 0.85
FloatOrDefault(conf) == IF conf = 0 THEN MultiDefaultConfidence ELSE conf

RECURSIVE CountDims(_, _, _)
CountDims(dims, mapping, cov) ==
    IF dims = <<>> THEN cov
    ELSE CountDims(Tail(dims), mapping,
            [cov EXCEPT ![Head(dims)] = IncrTruthy(@, SubCode(mapping.sub[Head(dims)]))])

MultiRecommendation(q_num, dims, mapping) ==
    [question_num |-> q_num,
     mapped |-> [d \in Range(dims) |-> SubCode(mapping.sub[d])],
     confidence |->
        SumSeq([i \in 1..Len(dims) |-> FloatOrDefault(SubConf(mapping.sub[dims[i]]))])
            \div Len(dims),
     justification |-> Get(mapping.just, "")]

RECURSIVE ProcessMultiMappings(_, _, _, _, _, _)
ProcessMultiMappings(batch, mappings, i, dims, recs, cov) ==
    IF i > Len(mappings) \/ i > Len(batch)
    THEN [recs |-> recs, cov |-> cov, raised |-> FALSE]
    ELSE IF ~ mappings[i].obj
    THEN [recs |-> recs, cov |-> cov, raised |-> TRUE]
    ELSE ProcessMultiMappings(batch, mappings, i + 1, dims,
            Append(recs, MultiRecommendation(batch[i], dims, mappings[i])),
            CountDims(dims, mappings[i], cov))

\* the fallback of the multi-dimension run asks for the first dimension only
MultiFallbackRecommendation(q_num, first_dim, llm_response) ==
    [question_num |-> q_num,
     mapped |-> [d \in {first_dim} |-> Get(llm_response.code, "")],
     confidence |-> GetConf(llm_response.conf, MultiDefaultConfidence),
     justification |-> Get(llm_response.just, "")]

MultiArrays ==
    [dims \in {<<"competency", "objective">>} |->
        [n \in 0..(MaxBatch + 1) |-> ArraysUpTo(MultiEntries(dims), MultiNominal, n)]]

(***************************************************************************)
(* RatingEngine: entries of a "ratings" array and the rating results       *)
(***************************************************************************)
OtherCode(dim) == IF dim = "competency" THEN "T2" ELSE "O2"

RatingEntry(r, a, sg, sc) ==
    [obj |-> TRUE, rating |-> r, agreement |-> a, suggested |-> sg, sconf |-> sc]

RatingNominal(dim) == RatingEntry("correct", 1000, KnownCode(dim), 900)

RatingMalformed ==
    [obj |-> FALSE, rating |-> Absent, agreement |-> NoConf, suggested |-> Absent,
     sconf |-> NoConf]

RatingEntries(dim) ==
    {RatingNominal(dim),
     RatingEntry("partially_correct", 500, OtherCode(dim), 800),
     RatingEntry("incorrect", 100, OtherCode(dim), 800),
     RatingEntry(Absent, 500, OtherCode(dim), 800),
     RatingEntry("excellent", 1000, KnownCode(dim), 900),
     RatingEntry("correct", NoConf, Absent, NoConf),
     RatingMalformed}

\* the ratings a scripted oracle returns, question after question
RatingScript == <<"correct", "incorrect", "partially_correct", "correct">>

RatingScriptAt(k) == RatingScript[((k - 1) % Len(RatingScript)) + 1]

RatingScriptEntry(dim, k) ==
    IF RatingScriptAt(k) = "correct" THEN RatingNominal(dim)
    ELSE RatingEntry(RatingScriptAt(k), 500, OtherCode(dim), 800)

RatingArrays ==
    [d \in AllDimensions |->
        [n \in 0..(MaxBatch + 1) |-> ArraysUpTo(RatingEntries(d), RatingNominal(d), n)]]

\* the existing mapping a row of the mapped file carries
ExistingMapping(dim) == KnownCode(dim)

RatingResult(q_num, dim, rating) ==
    [question_num |-> q_num,
     existing_mapping |-> ExistingMapping(dim),
     rating |-> Get(rating.rating, "unknown"),
     agreement_score |-> GetConf(rating.agreement, 0),
     suggested_mapping |-> Get(rating.suggested, ""),
     suggestion_confidence |-> GetConf(rating.sconf, 0)]

RECURSIVE ProcessRatings(_, _, _, _, _)
ProcessRatings(batch, ratings, i, dim, acc) ==
    IF i > Len(ratings) \/ i > Len(batch)
    THEN [ratings |-> acc, raised |-> FALSE]
    ELSE IF ~ ratings[i].obj
    THEN [ratings |-> acc, raised |-> TRUE]
    ELSE ProcessRatings(batch, ratings, i + 1, dim,
            Append(acc, RatingResult(batch[i], dim, ratings[i])))

\* multi-dimension rating entries
RatingSub(k, r, sg, cf) == [kind |-> k, rating |-> r, suggested |-> sg, conf |-> cf]

MultiRatingEntry(o, subs) == [obj |-> TRUE, overall |-> o, sub |-> subs]

NominalRatingSubs == [d \in AllDimensions |-> RatingSub("dict", "correct", KnownCode(d), 900)]

MultiRatingNominal == MultiRatingEntry("correct", NominalRatingSubs)

MultiRatingMalformed == [obj |-> FALSE, overall |-> Absent, sub |-> NominalRatingSubs]

RatingSubDeviations(d) ==
    {RatingSub("dict", "partially_correct", OtherCode(d), 800),
     RatingSub("dict", "incorrect", OtherCode(d), 800),
     RatingSub("absent", Absent, Absent, NoConf),
     RatingSub("str", Absent, Absent, NoConf)}

MultiRatingEntries(dims) ==
    {MultiRatingNominal, MultiRatingMalformed}
    \cup {MultiRatingEntry(o, NominalRatingSubs) :
             o \in {"partially_correct", "incorrect", Absent}}
    \cup UNION {{MultiRatingEntry("correct", [NominalRatingSubs EXCEPT ![d] = dev]) :
                    dev \in RatingSubDeviations(d)} : d \in Range(dims)}

MultiRatingArrays ==
    [dims \in {<<"competency", "objective">>} |->
        [n \in 0..(MaxBatch + 1) |->
            ArraysUpTo(MultiRatingEntries(dims), MultiRatingNominal, n)]]

\* dim_rating = rating.get(dim, {}); an entry is kept only when it is a dict
DimensionRating(d, sub) ==
    [current |-> ExistingMapping(d),
     rating |-> IF sub.kind = "dict" THEN Get(sub.rating, "unknown") ELSE "unknown",
     suggested |-> IF sub.kind = "dict" THEN Get(sub.suggested, "") ELSE "",
     confidence |-> IF sub.kind = "dict" THEN GetConf(sub.conf, 0) ELSE 0]

MultiRatingResult(q_num, dims, rating) ==
    [question_num |-> q_num,
     overall_rating |-> Get(rating.overall, "unknown"),
     dimension_ratings |->
        [d \in {x \in Range(dims) : rating.sub[x].kind # "str"} |->
            DimensionRating(d, rating.sub[d])]]

RECURSIVE ProcessMultiRatings(_, _, _, _, _)
ProcessMultiRatings(batch, ratings, i, dims, acc) ==
    IF i > Len(ratings) \/ i > Len(batch)
    THEN [ratings |-> acc, raised |-> FALSE]
    ELSE IF ~ ratings[i].obj
    THEN [ratings |-> acc, raised |-> TRUE]
    ELSE ProcessMultiRatings(batch, ratings, i + 1, dims,
            Append(acc, MultiRatingResult(batch[i], dims, ratings[i])))

(***************************************************************************)
(* RatingEngine: the summary and the recommendation list of a rating run   *)
(***************************************************************************)
RECURSIVE GCD(_, _)
GCD(a, b) == IF b = 0 THEN a ELSE GCD(b, a % b)

\* a Python quotient a / b, kept exact as the reduced fraction <<p, q>>
Quotient(a, b) == <<a \div GCD(a, b), b \div GCD(a, b)>>

\* r['overall_rating'] in the multi-dimension run, r['rating'] elsewhere
RatingOf(e, r) ==
    IF e = "rate_existing_mappings_multi" THEN r.overall_rating ELSE r.rating

\* sum(1 for r in all_ratings if r['rating'] == value)
CountRated(e, ratings, value) ==
    Cardinality({i \in DOMAIN ratings : RatingOf(e, ratings[i]) = value})

\* variant: the rate is reported in percent
AccuracyPercent(correct_count, total) ==
    IF total = 0 THEN <<0, 1>> ELSE Quotient(100 * correct_count, total)

\* correct_count / len(all_ratings) if all_ratings else 0
AccuracyRate(correct_count, total) ==
    IF total = 0 THEN <<0, 1>> ELSE Quotient(correct_count, total)

RatingSummary(e, ratings) ==
    [total_rated |-> Len(ratings),
     correct |-> CountRated(e, ratings, "correct"),
     partially_correct |-> CountRated(e, ratings, "partially_correct"),
     incorrect |-> CountRated(e, ratings, "incorrect"),
     accuracy_rate |-> AccuracyRate(CountRated(e, ratings, "correct"), Len(ratings))]

\* variant: the current mapping is carried instead of the suggested one
RatingRecommendationKeepsCurrent(r) ==
    [question_num |-> r.question_num,
     current_mapping |-> r.existing_mapping,
     recommended_mapping |-> r.existing_mapping,
     mapped_id |-> r.existing_mapping,
     confidence |-> r.suggestion_confidence,
     rating |-> r.rating,
     agreement_score |-> r.agreement_score]

\* one element of the list comprehension of rate_existing_mappings
RatingRecommendation(r) ==
    [question_num |-> r.question_num,
     current_mapping |-> r.existing_mapping,
     recommended_mapping |-> r.suggested_mapping,
     mapped_id |-> r.suggested_mapping,
     confidence |-> r.suggestion_confidence,
     rating |-> r.rating,
     agreement_score |-> r.agreement_score]

\* dim_data of a dimension the rating result holds no entry for is {}
MultiMappedCode(r, d) ==
    LET has == d \in DOMAIN r.dimension_ratings
        rated == IF has THEN r.dimension_ratings[d].rating ELSE Absent
        suggested == IF has THEN r.dimension_ratings[d].suggested ELSE ""
    IN IF rated # "correct" /\ suggested # "" THEN suggested ELSE ExistingMapping(d)

MultiRatingRecommendation(r, dims) ==
    [question_num |-> r.question_num,
     rating |-> r.overall_rating,
     mapped |-> [d \in Range(dims) |-> MultiMappedCode(r, d)],
     confidence |->
        SumSeq([i \in 1..Len(dims) |->
                  IF dims[i] \in DOMAIN r.dimension_ratings
                  THEN r.dimension_ratings[dims[i]].confidence ELSE 0]) \div Len(dims),
     dimension_ratings |-> r.dimension_ratings]

\* the recommendations of a rating run: the ratings that are not 'correct', in order
RECURSIVE RatingRecommendations(_, _, _)
RatingRecommendations(e, dims, ratings) ==
    IF ratings = <<>> THEN <<>>
    ELSE LET r == Head(ratings)
             rest == RatingRecommendations(e, dims, Tail(ratings))
         IN IF RatingOf(e, r) = "correct" THEN rest
            ELSE CASE e = "rate_existing_mappings" -> <<RatingRecommendation(r)>> \o rest
                   [] e = "rate_mappings" -> <<r>> \o rest
                   [] OTHER -> <<MultiRatingRecommendation(r, dims)>> \o rest

(***************************************************************************)
(* MappingTool.execute: the summary computed from a run_audit_batched      *)
(* result.  round(x, 2) of total/n thousandths, ties to even.              *)
(***************************************************************************)
\* variant: the average is cut to two decimals instead of rounded
Truncate2(total, n) == IF n = 0 THEN 0 ELSE 10 * (total \div (10 * n))

Round2(total, n) ==
    IF n = 0 THEN 0
    ELSE LET q == total \div (10 * n)
             r == total % (10 * n)
         IN IF 2 * r > 10 * n THEN 10 * (q + 1)
            ELSE IF 2 * r < 10 * n THEN 10 * q
            ELSE IF q % 2 = 0 THEN 10 * q ELSE 10 * (q + 1)

MappingToolSummary(res, dim) ==
    [total_questions |-> res.total_questions,
     mapped_questions |-> res.mapped_questions,
     topics_covered |-> Cardinality(DOMAIN res.coverage[dim]),
     gaps_found |-> Cardinality(res.gaps[dim]),
     average_confidence |->
        Round2(SumSeq([i \in DOMAIN res.recommendations |->
                          res.recommendations[i].confidence]),
               Len(res.recommendations))]

(***************************************************************************)
(* State                                                                   *)
(***************************************************************************)
VARIABLES
    pc,                 \* "idle", "batch", "fallback", "done", "raised"
    entry,              \* the engine entry point that is running
    mock,               \* how the oracle behaves: "free" or "scripted"
    fail_at,            \* scripted oracle: the batch call that fails (0 = none)
    questions_df,       \* the question file
    reference_data,     \* dimension -> reference codes
    dimensions,         \* the requested dimensions, in order
    batch_size,
    questions_list,     \* question numbers of the eligible rows
    batch_idx,          \* offset of the current batch in questions_list
    fb_pos,             \* position in the batch of the next single-item call
    recommendations,
    coverage_counts,    \* dimension -> (code -> count)
    all_ratings,
    api_calls,          \* total_token_usage['api_calls']
    deviations,         \* free oracle: departures from the nominal answer so far
    calls,              \* log of the oracle calls issued so far
    last,               \* the latest oracle exchange
    result,             \* the returned result object
    export,             \* apply_and_export: its inputs and the dataset it wrote
    caller,             \* the HTTP endpoint that started the run and its request
    clock,              \* concurrent exports: the wall clock, in seconds
    output_folder,      \* concurrent exports: file name -> content
    worker              \* concurrent exports: worker -> its position and locals

vars == << pc, entry, mock, fail_at, questions_df, reference_data, dimensions,
           batch_size, questions_list, batch_idx, fb_pos, recommendations,
           coverage_counts, all_ratings, api_calls, deviations, calls, last, result,
           export, caller, clock, output_folder, worker >>

\* the variables of one engine run and of one export
runvars == << pc, entry, mock, fail_at, questions_df, reference_data, dimensions,
              batch_size, questions_list, batch_idx, fb_pos, recommendations,
              coverage_counts, all_ratings, api_calls, deviations, calls, last, result,
              export, caller >>

ClassifyEntryPoints == {"run_audit_batched", "run_audit_batched_multi", "map_questions"}
RatingEntryPoints == {"rate_existing_mappings", "rate_existing_mappings_multi", "rate_mappings"}
EntryPoints == ClassifyEntryPoints \cup RatingEntryPoints

NoExchange == [kind |-> "none"]

NoDeviations == [batch |-> 0, single |-> 0]

Init ==
    /\ pc = "idle"
    /\ entry = "none"
    /\ mock = "free"
    /\ fail_at = 0
    /\ questions_df = <<>>
    /\ reference_data = EmptyReference
    /\ dimensions = <<>>
    /\ batch_size = MinBatchSize
    /\ questions_list = <<>>
    /\ batch_idx = 0
    /\ fb_pos = 0
    /\ recommendations = <<>>
    /\ coverage_counts = [d \in {} |-> EmptyCounts]
    /\ all_ratings = <<>>
    /\ api_calls = 0
    /\ deviations = NoDeviations
    /\ calls = <<>>
    /\ last = NoExchange
    /\ result = NoResult
    /\ export = NoExport
    /\ caller = NoCaller
    /\ clock = 0
    /\ output_folder = << >>
    /\ worker = [p \in Workers |-> [at |-> "idle"]]

(***************************************************************************)
(* The result object                                                       *)
(***************************************************************************)
GapsOf(e, ref, dims, cov) ==
    IF e = "map_questions"
    THEN [d \in Range(dims) |-> ZeroGaps(cov[d])]
    ELSE [d \in Range(dims) |-> Gaps(ref[d], cov[d])]

BuildResult(e, df, ref, dims, bs, recs, cov, ratings, api) ==
    IF e \in RatingEntryPoints
    THEN [status |-> "returned",
          ratings |-> ratings,
          summary |-> RatingSummary(e, ratings),
          recommendations |-> RatingRecommendations(e, dims, ratings),
          total_questions |-> Len(ratings),
          api_calls |-> api]
    ELSE [status |-> "returned",
          recommendations |-> recs,
          coverage |-> cov,
          gaps |-> GapsOf(e, ref, dims, cov),
          total_questions |-> Len(df),
          mapped_questions |-> Len(recs),
          batch_mode |-> TRUE,
          batch_size |-> bs,
          api_calls |-> api]

\* the end of one pass of "for batch_idx in range(0, len(questions_list), batch_size)"
LoopOrReturn(e, df, ref, dims, bs, qlist, next_idx, recs, cov, ratings, api) ==
    /\ batch_idx' = next_idx
    /\ IF bs > 0 /\ next_idx < Len(qlist)
       THEN /\ pc' = "batch"
            /\ result' = NoResult
       ELSE /\ pc' = "done"
            /\ result' = BuildResult(e, df, ref, dims, bs, recs, cov, ratings, api)

InitialCoverage(e, dims) ==
    IF e = "map_questions"
    THEN [d \in Range(dims) |-> [o \in OBJECTIVES_REFERENCE |-> 0]]
    ELSE [d \in Range(dims) |-> EmptyCounts]

DimensionChoices(e) ==
    CASE e \in {"run_audit_batched", "rate_existing_mappings"} -> {<<"competency">>}
      [] e \in {"map_questions", "rate_mappings"} -> {<<"objective">>}
      [] OTHER -> {<<"competency", "objective">>}

(***************************************************************************)
(* A caller starts a run: the files are read and questions_list prepared.  *)
(***************************************************************************)
Begin(e, m, f, df, ref, dims, bs) ==
    /\ pc = "idle"
    /\ entry' = e
    /\ mock' = m
    /\ fail_at' = f
    /\ questions_df' = df
    /\ reference_data' = ref
    /\ dimensions' = dims
    /\ batch_size' = bs
    /\ questions_list' = PrepareQuestionsList(df)
    /\ fb_pos' = 0
    /\ recommendations' = <<>>
    /\ coverage_counts' = InitialCoverage(e, dims)
    /\ all_ratings' = <<>>
    /\ api_calls' = 0
    /\ deviations' = NoDeviations
    /\ calls' = <<>>
    /\ last' = NoExchange
    /\ IF bs = 0
       THEN /\ batch_idx' = 0
            /\ pc' = "raised"
            /\ result' = NoResult
       ELSE LoopOrReturn(e, df, ref, dims, bs, PrepareQuestionsList(df), 0,
                         <<>>, InitialCoverage(e, dims), <<>>, 0)

StartRun ==
    /\ pc = "idle"
    /\ UNCHANGED << export, caller, clock, output_folder, worker >>
    /\ \E e \in EntryPoints, df \in QuestionFiles(MaxRows), ref \in ReferenceFiles,
          bs \in MinBatchSize..MaxBatch :
           \E dims \in DimensionChoices(e) :
               Begin(e, "free", 0, df, ref, dims, bs)

StartScriptedRun ==
    /\ pc = "idle"
    /\ UNCHANGED << export, caller, clock, output_folder, worker >>
    /\ \E df \in ScriptedFiles, bs \in MinBatchSize..MaxBatchSize,
          f \in 0..MaxFailAt, ref \in LoadedReferences :
           Begin("run_audit_batched", "scripted", f, df, ref, <<"competency">>, bs)

StartScriptedRating ==
    /\ pc = "idle"
    /\ UNCHANGED << export, caller, clock, output_folder, worker >>
    /\ \E e \in {"rate_existing_mappings", "rate_mappings"}, df \in ScriptedFiles,
          bs \in MinBatchSize..MaxBatchSize, f \in 0..MaxFailAt :
           \E dims \in DimensionChoices(e) :
               Begin(e, "scripted", f, df, FullReference, dims, bs)

(***************************************************************************)
(* The HTTP endpoints that start a batched run with the batch_size of the  *)
(* request                                                                 *)
(***************************************************************************)
\* files of eligible questions only
LongFiles == {[i \in 1..n |-> "question"] : n \in 0..MaxLongRows}

SuppliedBatchSizes == (0 - MaxBelow)..MaxSupplied

\* batch_size = max(1, min(10, int(batch_size)))
Clamp(requested) ==
    IF requested < MinBatchSize THEN MinBatchSize
    ELSE IF requested > MaxBatchSize THEN MaxBatchSize
    ELSE requested

Request(endpoint, bs) == [endpoint |-> endpoint, batch_size |-> bs]

Serve(endpoint, e, dims, df, supplied, bs) ==
    /\ caller' = Request(endpoint, supplied)
    /\ UNCHANGED << export, clock, output_folder, worker >>
    /\ Begin(e, "scripted", 0, df, FullReference, dims, bs)

\* backend_v2 /api/run-audit-efficient
run_audit_efficient ==
    /\ pc = "idle"
    /\ \E df \in LongFiles, supplied \in SuppliedBatchSizes :
        Serve("run_audit_efficient", "run_audit_batched", <<"competency">>, df,
              supplied, Clamp(supplied))

\* backend_v2 /api/rate-mappings
api_rate_mappings ==
    /\ pc = "idle"
    /\ \E df \in LongFiles, supplied \in SuppliedBatchSizes :
        Serve("api_rate_mappings", "rate_existing_mappings", <<"competency">>, df,
              supplied, Clamp(supplied))

\* objectives tool 1: the batch_size of the request goes to the engine as it is
tool1_map ==
    /\ pc = "idle"
    /\ \E df \in LongFiles, supplied \in SuppliedBatchSizes :
        Serve("tool1_map", "map_questions", <<"objective">>, df, supplied, supplied)

\* objectives tool 2
tool2_rate ==
    /\ pc = "idle"
    /\ \E df \in LongFiles, supplied \in SuppliedBatchSizes :
        Serve("tool2_rate", "rate_mappings", <<"objective">>, df, supplied, supplied)

(***************************************************************************)
(* Oracle behaviour on a batch call and on a single-item call              *)
(***************************************************************************)
Batch == BatchSlice(questions_list, batch_idx, batch_size)
current_batch_num == (batch_idx \div batch_size) + 1

FailureKinds == {"raise", "notjson", "nonobject"}

Failure(k) == [kind |-> k, mappings |-> <<>>]

ScriptedArray(batch, offset) ==
    [kind |-> "array",
     mappings |-> [i \in 1..Len(batch) |-> ScriptEntry(batch[i], offset + i)]]

ScriptedRatingArray(batch, offset, dim) ==
    [kind |-> "array",
     mappings |-> [i \in 1..Len(batch) |-> RatingScriptEntry(dim, offset + i)]]

\* how far an answer to a batch call departs from one nominal entry per item
BatchCost(resp, nominal) ==
    IF resp.kind # "array" THEN 1
    ELSE Cardinality({i \in DOMAIN resp.mappings : resp.mappings[i] # nominal})
         + (IF Len(resp.mappings) # Len(Batch) THEN 1 ELSE 0)

SingleCost(resp, nominal) ==
    IF resp.kind = "object" /\ resp.entry = nominal THEN 0 ELSE 1

Spent(kind, cost) ==
    IF mock = "scripted" THEN deviations ELSE [deviations EXCEPT ![kind] = @ + cost]

BatchResponses(arrays, nominal) ==
    IF mock = "scripted"
    THEN IF current_batch_num = fail_at
         THEN {Failure("raise"), Failure("notjson")}
         ELSE IF entry \in RatingEntryPoints
         THEN {ScriptedRatingArray(Batch, batch_idx, dimensions[1])}
         ELSE {ScriptedArray(Batch, batch_idx)}
    ELSE {resp \in {Failure(k) : k \in FailureKinds \cup {"nokey"}}
                    \cup {[kind |-> "array", mappings |-> ms] :
                              ms \in arrays[Len(Batch) + 1]} :
            deviations.batch + BatchCost(resp, nominal) <= MaxDeviations}

SingleResponses(entries, nominal, q_num, k) ==
    IF mock = "scripted"
    THEN {[kind |-> "object", entry |-> ScriptEntry(q_num, k)]}
    ELSE {resp \in {[kind |-> "none", entry |-> Malformed],
                    [kind |-> "nonobject", entry |-> Malformed]}
                    \cup {[kind |-> "object", entry |-> e] : e \in entries} :
            deviations.single + SingleCost(resp, nominal) <= MaxSingleDeviations}

\* json.loads succeeded and the value is an object
Parsed(resp) == resp.kind \in {"nokey", "array"}

\* time.sleep(0.5) and time.sleep(1.0), in tenths of a second
ItemPause == 5
BatchPause == 10

\* the entry points whose except branch processes the batch one by one
FallbackEntryPoints == {"run_audit_batched", "run_audit_batched_multi"}

\* what the run sleeps between the return of a batch call and its next oracle
\* call: nothing on the way into the except branch, else the pause that ends
\* the batch
SleptAfterBatch(ok) ==
    IF entry \in FallbackEntryPoints /\ ~ ok THEN 0 ELSE BatchPause

\* what the run sleeps after a single-item call: the pause that ends the item
\* and, after the last item, the pause that ends the batch
SleptAfterSingle(resp) ==
    IF resp.kind = "nonobject" THEN 0
    ELSE ItemPause + (IF fb_pos = Len(Batch) THEN BatchPause ELSE 0)

BatchCallLog(batch, resp, ok) ==
    [kind |-> "batch", items |-> batch, response |-> resp.kind, ok |-> ok,
     n |-> Len(resp.mappings), slept |-> SleptAfterBatch(ok)]

SingleCallLog(q_num, resp, ok) ==
    [kind |-> "single", items |-> <<q_num>>, response |-> resp.kind, ok |-> ok, n |-> 0,
     slept |-> SleptAfterSingle(resp)]

Exchange(kind, batch, resp, base) ==
    [kind |-> kind, items |-> batch, response |-> resp, rec_base |-> base]

(***************************************************************************)
(* run_audit_batched: one batch call                                       *)
(***************************************************************************)
ClassifyBatch ==
    /\ pc = "batch"
    /\ UNCHANGED << export, caller, clock, output_folder, worker >>
    /\ entry = "run_audit_batched"
    /\ \E resp \in BatchResponses(FreeArrays[dimensions[1]], Nominal(dimensions[1])) :
        LET dim == dimensions[1]
            out == IF Parsed(resp)
                   THEN ProcessMappings(Batch, resp.mappings, 1, dim,
                                        recommendations, coverage_counts)
                   ELSE [recs |-> recommendations, cov |-> coverage_counts,
                         raised |-> TRUE]
            api == IF resp.kind = "raise" THEN api_calls ELSE api_calls + 1
        IN  /\ recommendations' = out.recs
            /\ coverage_counts' = out.cov
            /\ api_calls' = api
            /\ deviations' = Spent("batch", BatchCost(resp, Nominal(dim)))
            /\ calls' = Append(calls, BatchCallLog(Batch, resp, ~ out.raised))
            /\ last' = Exchange("batch", Batch, resp, Len(recommendations))
            /\ IF out.raised
               THEN /\ pc' = "fallback"
                    /\ fb_pos' = 1
                    /\ UNCHANGED << batch_idx, result >>
               ELSE /\ fb_pos' = 0
                    /\ LoopOrReturn(entry, questions_df, reference_data, dimensions,
                                    batch_size, questions_list, NextBatchIdx(batch_idx, batch_size),
                                    out.recs, out.cov, all_ratings, api)
    /\ UNCHANGED << entry, mock, fail_at, questions_df, reference_data, dimensions,
                    batch_size, questions_list, all_ratings >>

(***************************************************************************)
(* run_audit_batched: one single-item call of the fallback loop            *)
(***************************************************************************)
\* if llm_response:
Truthy(resp) == resp.kind = "object" /\ ~ IsEmptyObject(resp.entry)

FallbackCall ==
    /\ pc = "fallback"
    /\ UNCHANGED << export, caller, clock, output_folder, worker >>
    /\ entry = "run_audit_batched"
    /\ LET q_num == Batch[fb_pos]
           dim == dimensions[1]
       IN \E resp \in SingleResponses(SingleEntries(dim), Nominal(dim), q_num,
                                      batch_idx + fb_pos) :
           LET recs == IF Truthy(resp)
                       THEN Append(recommendations, Recommendation(q_num, dim, resp.entry))
                       ELSE recommendations
               cov == IF Truthy(resp)
                      THEN [coverage_counts EXCEPT ![dim] = Incr(@, Get(resp.entry.code, ""))]
                      ELSE coverage_counts
           IN  /\ api_calls' = api_calls + 1
               /\ deviations' = Spent("single", SingleCost(resp, Nominal(dim)))
               /\ calls' = Append(calls, SingleCallLog(q_num, resp, Truthy(resp)))
               /\ last' = Exchange("single", <<q_num>>, resp, Len(recommendations))
               /\ IF resp.kind = "nonobject"
                  THEN \* .get on a non-dict raises inside the except block
                       /\ pc' = "raised"
                       /\ result' = [status |-> "raised"]
                       /\ UNCHANGED << recommendations, coverage_counts, batch_idx, fb_pos >>
                  ELSE /\ recommendations' = recs
                       /\ coverage_counts' = cov
                       /\ IF fb_pos < Len(Batch)
                          THEN /\ fb_pos' = fb_pos + 1
                               /\ UNCHANGED << pc, batch_idx, result >>
                          ELSE /\ fb_pos' = 0
                               /\ LoopOrReturn(entry, questions_df, reference_data,
                                               dimensions, batch_size, questions_list,
                                               NextBatchIdx(batch_idx, batch_size), recs, cov,
                                               all_ratings, api_calls + 1)
    /\ UNCHANGED << entry, mock, fail_at, questions_df, reference_data, dimensions,
                    batch_size, questions_list, all_ratings >>

(***************************************************************************)
(* run_audit_batched_multi: one batch call, one single-item fallback call  *)
(***************************************************************************)
ClassifyBatchMulti ==
    /\ pc = "batch"
    /\ UNCHANGED << export, caller, clock, output_folder, worker >>
    /\ entry = "run_audit_batched_multi"
    /\ \E resp \in BatchResponses(MultiArrays[dimensions], MultiNominal) :
        LET out == IF Parsed(resp)
                   THEN ProcessMultiMappings(Batch, resp.mappings, 1, dimensions,
                                             recommendations, coverage_counts)
                   ELSE [recs |-> recommendations, cov |-> coverage_counts,
                         raised |-> TRUE]
            api == IF resp.kind = "raise" THEN api_calls ELSE api_calls + 1
        IN  /\ recommendations' = out.recs
            /\ coverage_counts' = out.cov
            /\ api_calls' = api
            /\ deviations' = Spent("batch", BatchCost(resp, MultiNominal))
            /\ calls' = Append(calls, BatchCallLog(Batch, resp, ~ out.raised))
            /\ last' = Exchange("batch", Batch, resp, Len(recommendations))
            /\ IF out.raised
               THEN /\ pc' = "fallback"
                    /\ fb_pos' = 1
                    /\ UNCHANGED << batch_idx, result >>
               ELSE /\ fb_pos' = 0
                    /\ LoopOrReturn(entry, questions_df, reference_data, dimensions,
                                    batch_size, questions_list, NextBatchIdx(batch_idx, batch_size),
                                    out.recs, out.cov, all_ratings, api)
    /\ UNCHANGED << entry, mock, fail_at, questions_df, reference_data, dimensions,
                    batch_size, questions_list, all_ratings >>

FallbackCallMulti ==
    /\ pc = "fallback"
    /\ UNCHANGED << export, caller, clock, output_folder, worker >>
    /\ entry = "run_audit_batched_multi"
    /\ LET q_num == Batch[fb_pos]
           first_dim == dimensions[1]
       IN \E resp \in SingleResponses(SingleEntries(first_dim), Nominal(first_dim), q_num,
                                      batch_idx + fb_pos) :
           LET recs == IF Truthy(resp)
                       THEN Append(recommendations,
                                   MultiFallbackRecommendation(q_num, first_dim, resp.entry))
                       ELSE recommendations
               cov == IF Truthy(resp)
                      THEN [coverage_counts EXCEPT
                               ![first_dim] = IncrTruthy(@, Get(resp.entry.code, ""))]
                      ELSE coverage_counts
           IN  /\ api_calls' = api_calls + 1
               /\ deviations' = Spent("single", SingleCost(resp, Nominal(first_dim)))
               /\ calls' = Append(calls, SingleCallLog(q_num, resp, Truthy(resp)))
               /\ last' = Exchange("single", <<q_num>>, resp, Len(recommendations))
               /\ IF resp.kind = "nonobject"
                  THEN /\ pc' = "raised"
                       /\ result' = [status |-> "raised"]
                       /\ UNCHANGED << recommendations, coverage_counts, batch_idx, fb_pos >>
                  ELSE /\ recommendations' = recs
                       /\ coverage_counts' = cov
                       /\ IF fb_pos < Len(Batch)
                          THEN /\ fb_pos' = fb_pos + 1
                               /\ UNCHANGED << pc, batch_idx, result >>
                          ELSE /\ fb_pos' = 0
                               /\ LoopOrReturn(entry, questions_df, reference_data,
                                               dimensions, batch_size, questions_list,
                                               NextBatchIdx(batch_idx, batch_size), recs, cov,
                                               all_ratings, api_calls + 1)
    /\ UNCHANGED << entry, mock, fail_at, questions_df, reference_data, dimensions,
                    batch_size, questions_list, all_ratings >>

(***************************************************************************)
(* ObjectivesEngine.map_questions: one batch call; a failed batch is left  *)
(***************************************************************************)
MapQuestionsBatch ==
    /\ pc = "batch"
    /\ UNCHANGED << export, caller, clock, output_folder, worker >>
    /\ entry = "map_questions"
    /\ \E resp \in BatchResponses(FreeArrays["objective"], Nominal("objective")) :
        LET out == IF Parsed(resp)
                   THEN ProcessObjectiveMappings(Batch, resp.mappings, 1,
                                                 recommendations, coverage_counts)
                   ELSE [recs |-> recommendations, cov |-> coverage_counts,
                         raised |-> TRUE]
        IN  /\ recommendations' = out.recs
            /\ coverage_counts' = out.cov
            /\ deviations' = Spent("batch", BatchCost(resp, Nominal("objective")))
            /\ calls' = Append(calls, BatchCallLog(Batch, resp, ~ out.raised))
            /\ last' = Exchange("batch", Batch, resp, Len(recommendations))
            /\ LoopOrReturn(entry, questions_df, reference_data, dimensions,
                            batch_size, questions_list, NextBatchIdx(batch_idx, batch_size),
                            out.recs, out.cov, all_ratings, api_calls)
    /\ UNCHANGED << entry, mock, fail_at, questions_df, reference_data, dimensions,
                    batch_size, questions_list, all_ratings, api_calls, fb_pos >>

(***************************************************************************)
(* Rating runs: one batch call; a failed batch is logged and left          *)
(***************************************************************************)
RateStep(resp, nominal, out, api) ==
    /\ all_ratings' = out.ratings
    /\ api_calls' = api
    /\ deviations' = Spent("batch", BatchCost(resp, nominal))
    /\ calls' = Append(calls, BatchCallLog(Batch, resp, ~ out.raised))
    /\ last' = Exchange("batch", Batch, resp, Len(all_ratings))
    /\ LoopOrReturn(entry, questions_df, reference_data, dimensions,
                    batch_size, questions_list, NextBatchIdx(batch_idx, batch_size),
                    recommendations, coverage_counts, out.ratings, api)
    /\ UNCHANGED << entry, mock, fail_at, questions_df, reference_data, dimensions,
                    batch_size, questions_list, recommendations, coverage_counts,
                    fb_pos >>

RateBatch ==
    /\ pc = "batch"
    /\ UNCHANGED << export, caller, clock, output_folder, worker >>
    /\ entry = "rate_existing_mappings"
    /\ \E resp \in BatchResponses(RatingArrays[dimensions[1]], RatingNominal(dimensions[1])) :
        RateStep(resp, RatingNominal(dimensions[1]),
                 IF Parsed(resp)
                 THEN ProcessRatings(Batch, resp.mappings, 1, dimensions[1], all_ratings)
                 ELSE [ratings |-> all_ratings, raised |-> TRUE],
                 IF resp.kind = "raise" THEN api_calls ELSE api_calls + 1)

RateBatchMulti ==
    /\ pc = "batch"
    /\ UNCHANGED << export, caller, clock, output_folder, worker >>
    /\ entry = "rate_existing_mappings_multi"
    /\ \E resp \in BatchResponses(MultiRatingArrays[dimensions], MultiRatingNominal) :
        RateStep(resp, MultiRatingNominal,
                 IF Parsed(resp)
                 THEN ProcessMultiRatings(Batch, resp.mappings, 1, dimensions, all_ratings)
                 ELSE [ratings |-> all_ratings, raised |-> TRUE],
                 IF resp.kind = "raise" THEN api_calls ELSE api_calls + 1)

RateMappingsBatch ==
    /\ pc = "batch"
    /\ UNCHANGED << export, caller, clock, output_folder, worker >>
    /\ entry = "rate_mappings"
    /\ \E resp \in BatchResponses(RatingArrays["objective"], RatingNominal("objective")) :
        RateStep(resp, RatingNominal("objective"),
                 IF Parsed(resp)
                 THEN ProcessRatings(Batch, resp.mappings, 1, "objective", all_ratings)
                 ELSE [ratings |-> all_ratings, raised |-> TRUE],
                 api_calls)

(***************************************************************************)
(* apply_and_export: the selected recommendations are written into the     *)
(* rows of the dataset and the merged dataset is exported                  *)
(***************************************************************************)
ExportEngines == {"backend", "backend_v2", "objectives"}

\* str(Question Number) of the rows and str(question_num) of the recommendations
DatasetIds == {1, 2}

\* a dataset row: its identifier and the three columns an export writes;
\* Absent and NoConf stand for a column the file does not hold
DatasetRow(id, code, conf, just) ==
    [id |-> id, code |-> code, confidence_score |-> conf, justification |-> just]

Unmapped(id) == DatasetRow(id, Absent, NoConf, Absent)
Mapped(id) == DatasetRow(id, "T3", 500, "old")

Datasets ==
    {[i \in DOMAIN ids |-> Unmapped(ids[i])] : ids \in SeqsUpTo(DatasetIds, MaxDatasetRows)}
    \cup {[i \in DOMAIN ids |-> Mapped(ids[i])] : ids \in SeqsUpTo(DatasetIds, MaxDatasetRows)}

\* a recommendation as the caller sends it; a key may be missing
ExportRec(q_num, code, conf, just) ==
    [question_num |-> q_num, code |-> code, confidence |-> conf, justification |-> just]

NominalRec(q_num) == ExportRec(q_num, "T1", 900, "because")

OddRecs(q_num) ==
    {ExportRec(q_num, "", 900, "because"),
     ExportRec(q_num, "T2", NoConf, Absent)}

RecLists ==
    {recs \in SeqsUpTo(UNION {{NominalRec(q)} \cup OddRecs(q) : q \in DatasetIds}, MaxRecs) :
        Cardinality({i \in DOMAIN recs : recs[i] # NominalRec(recs[i].question_num)})
            <= MaxOddRecs}

RECURSIVE Ascending(_)
Ascending(S) ==
    IF S = {} THEN <<>>
    ELSE LET m == CHOOSE x \in S : \A y \in S : x <= y
         IN <<m>> \o Ascending(S \ {m})

\* the indices a caller sends: positions of the list, with at most one that is not
Selections(recs) ==
    {Ascending(S \cup extra) :
        S \in SUBSET (0..(Len(recs) - 1)), extra \in {{}, {-1}, {Len(recs)}}}

\* recommendations[idx] of a Python list: a negative index counts from the end
PyInRange(recs, idx) == -Len(recs) <= idx /\ idx < Len(recs)
PyItem(recs, idx) == IF idx >= 0 THEN recs[idx + 1] ELSE recs[Len(recs) + idx + 1]

\* variant: a write adds to the number the cell holds
Accumulate(old, value) == IF old = NoConf THEN value ELSE old + value

\* questions_df.loc[mask, column] = value
Overwrite(old, value) == value

\* the code column after one recommendation: the older engines write
\* rec.get(key, ''), backend_v2 writes only a truthy mapped_id
WriteCode(engine, old, rec) ==
    IF engine = "backend_v2"
    THEN IF rec.code # Absent /\ rec.code # "" THEN rec.code ELSE old
    ELSE Get(rec.code, "")

ApplyRec(engine, df, rec) ==
    [i \in DOMAIN df |->
        IF df[i].id = rec.question_num
        THEN DatasetRow(df[i].id,
                        WriteCode(engine, df[i].code, rec),
                        Overwrite(df[i].confidence_score, GetConf(rec.confidence, 0)),
                        Get(rec.justification, ""))
        ELSE df[i]]

\* for idx in selected_indices: if idx < len(recommendations): ...
RECURSIVE ApplySelected(_, _, _, _)
ApplySelected(engine, df, recs, sel) ==
    IF sel = <<>> THEN [df |-> df, raised |-> FALSE]
    ELSE IF Head(sel) >= Len(recs) THEN ApplySelected(engine, df, recs, Tail(sel))
    ELSE IF ~ PyInRange(recs, Head(sel)) THEN [df |-> df, raised |-> TRUE]
    ELSE ApplySelected(engine, ApplyRec(engine, df, PyItem(recs, Head(sel))), recs, Tail(sel))

Exported(status, engine, original, df, recs, sel, out) ==
    [status |-> IF out.raised THEN "raised" ELSE status,
     engine |-> engine, original |-> original, question_csv |-> df,
     recommendations |-> recs, selected_indices |-> sel, output |-> out.df]

\* a caller applies a selection to a dataset
ApplyAndExport ==
    /\ pc = "idle"
    /\ export.status = "none"
    /\ \E engine \in ExportEngines, df \in Datasets, recs \in RecLists :
        \E sel \in Selections(recs) :
            export' = Exported("exported", engine, df, df, recs, sel,
                               ApplySelected(engine, df, recs, sel))
    /\ UNCHANGED << pc, entry, mock, fail_at, questions_df, reference_data, dimensions,
                    batch_size, questions_list, batch_idx, fb_pos, recommendations,
                    coverage_counts, all_ratings, api_calls, deviations, calls, last,
                    result, caller, clock, output_folder, worker >>

\* the same call once more, on the file the first call wrote
ApplyAgain ==
    /\ export.status = "exported"
    /\ export' = Exported("reapplied", export.engine, export.original, export.output,
                          export.recommendations, export.selected_indices,
                          ApplySelected(export.engine, export.output,
                                        export.recommendations, export.selected_indices))
    /\ UNCHANGED << pc, entry, mock, fail_at, questions_df, reference_data, dimensions,
                    batch_size, questions_list, batch_idx, fb_pos, recommendations,
                    coverage_counts, all_ratings, api_calls, deviations, calls, last,
                    result, caller, clock, output_folder, worker >>

Next ==
    \/ StartRun
    \/ StartScriptedRun
    \/ StartScriptedRating
    \/ run_audit_efficient
    \/ api_rate_mappings
    \/ tool1_map
    \/ tool2_rate
    \/ ClassifyBatch
    \/ FallbackCall
    \/ ClassifyBatchMulti
    \/ FallbackCallMulti
    \/ MapQuestionsBatch
    \/ RateBatch
    \/ RateBatchMulti
    \/ RateMappingsBatch

Spec == Init /\ [][Next]_vars

NextExport ==
    \/ ApplyAndExport
    \/ ApplyAgain

SpecExport == Init /\ [][NextExport]_vars

(***************************************************************************)
(* Two workers, each an engine run followed by its export, writing into    *)
(* the same output folder                                                  *)
(***************************************************************************)
ExportDimensions == {"competency", "objective"}

\* the dataset and the recommendation of a worker; the code tells the workers apart
WorkerDataset == <<Unmapped(1)>>
WorkerCodes == {"T1", "T2"}

\* datetime.now().strftime('%Y%m%d_%H%M%S'): the clock, to the second
Timestamp(seconds) == seconds

\* f"audit_output_{dimension}_{timestamp}.xlsx"
OutputFilename(dimension, timestamp) == <<"audit_output", dimension, timestamp>>

\* what worker w writes when it runs alone
AloneContent(w) ==
    ApplySelected("backend_v2", WorkerDataset, w.recommendations, <<0>>).df

\* a second passes
Tick ==
    /\ clock < MaxClock
    /\ clock' = clock + 1
    /\ UNCHANGED << output_folder, worker >>
    /\ UNCHANGED runvars

\* the engine run of a worker: it shares nothing, its result is its own
WorkerRun ==
    /\ \E p \in Workers, dim \in ExportDimensions, code \in WorkerCodes :
        /\ worker[p].at = "idle"
        /\ worker' = [worker EXCEPT ![p] =
              [at |-> "ran", dimension |-> dim,
               recommendations |-> <<ExportRec(1, code, 900, "because")>>,
               questions_df |-> <<>>, timestamp |-> 0, output_path |-> <<>>]]
    /\ UNCHANGED << clock, output_folder >>
    /\ UNCHANGED runvars

\* apply_and_export up to the file name: the rows are merged in memory and the
\* name is built from the clock
WorkerApply ==
    /\ \E p \in Workers :
        /\ worker[p].at = "ran"
        /\ worker' = [worker EXCEPT ![p] =
              [@ EXCEPT !.at = "named",
                        !.questions_df = AloneContent(worker[p]),
                        !.timestamp = Timestamp(clock),
                        !.output_path = OutputFilename(worker[p].dimension,
                                                       Timestamp(clock))]]
    /\ UNCHANGED << clock, output_folder >>
    /\ UNCHANGED runvars

\* with pd.ExcelWriter(output_path) ...: the file is created or replaced
WorkerWrite ==
    /\ \E p \in Workers :
        /\ worker[p].at = "named"
        /\ output_folder' =
              [f \in DOMAIN output_folder \cup {worker[p].output_path} |->
                  IF f = worker[p].output_path THEN worker[p].questions_df
                  ELSE output_folder[f]]
        /\ worker' = [worker EXCEPT ![p].at = "returned"]
    /\ UNCHANGED clock
    /\ UNCHANGED runvars

NextConcurrent ==
    \/ Tick
    \/ WorkerRun
    \/ WorkerApply
    \/ WorkerWrite

SpecConcurrent == Init /\ [][NextConcurrent]_vars

(***************************************************************************)
(* Vocabulary of the properties                                            *)
(***************************************************************************)
Done == pc = "done"
RunOver == pc \in {"done", "raised"}

Eligible == Range(questions_list)

EligibleRows == {i \in DOMAIN questions_df : questions_df[i] = "question"}

RecsFor(q) == {i \in DOMAIN recommendations : recommendations[i].question_num = q}

RatingsFor(q) == {i \in DOMAIN all_ratings : all_ratings[i].question_num = q}

BatchCallOf(q) == {i \in DOMAIN calls : calls[i].kind = "batch" /\ q \in Range(calls[i].items)}

SingleCallsOf(q) == {i \in DOMAIN calls : calls[i].kind = "single" /\ calls[i].items = <<q>>}

\* the batch call that held q failed and so did q's own single-item call
BothFailed(q) ==
    /\ \E i \in BatchCallOf(q) : ~ calls[i].ok
    /\ \E j \in SingleCallsOf(q) : ~ calls[j].ok

\* a batch call that raised or whose text was not valid JSON
RaisedOrNotJson(i) ==
    calls[i].kind = "batch" /\ calls[i].response \in {"raise", "notjson"}

RefCodes(d) == IF entry = "map_questions" THEN OBJECTIVES_REFERENCE ELSE reference_data[d]

Positive(counts) == {c \in DOMAIN counts : counts[c] > 0}

(***************************************************************************)
(* C1: at the end of a classification run every eligible question has     *)
(* exactly one recommendation, or none when both its batch call and its    *)
(* single-item call failed.                                                *)
(***************************************************************************)
C1_OnePerQuestion ==
    (Done /\ entry \in {"run_audit_batched", "run_audit_batched_multi"}) =>
        \A q \in Eligible :
            Cardinality(RecsFor(q)) = IF BothFailed(q) THEN 0 ELSE 1

(***************************************************************************)
(* C2: a batch call that raises or returns invalid JSON is followed by     *)
(* exactly one single-item call per item of that batch, in batch order;    *)
(* single-item calls are issued for no other items; an item whose          *)
(* single-item call succeeds has a recommendation; and with batch size 2,  *)
(* 5 questions and a failure of the 2nd batch call only, the result holds  *)
(* all 5 recommendations with batch_mode = TRUE.                           *)
(***************************************************************************)
C2_FallbackPerItem ==
    entry = "run_audit_batched" =>
        /\ \A i \in DOMAIN calls : RaisedOrNotJson(i) =>
              LET b == calls[i].items
              IN /\ \A k \in 1..Len(b) : (i + k) \in DOMAIN calls =>
                        /\ calls[i + k].kind = "single"
                        /\ calls[i + k].items = <<b[k]>>
                 /\ RunOver => (i + Len(b)) \in DOMAIN calls
                 /\ \A k \in 1..Len(b) : SingleCallsOf(b[k]) \subseteq {i + k}
        /\ \A j \in DOMAIN calls : calls[j].kind = "single" =>
              \E i \in 1..(j - 1) :
                  /\ calls[i].kind = "batch" /\ ~ calls[i].ok
                  /\ j <= i + Len(calls[i].items)
                  /\ calls[j].items = <<calls[i].items[j - i]>>
        /\ \A j \in DOMAIN calls : (calls[j].kind = "single" /\ calls[j].ok) =>
              RecsFor(calls[j].items[1]) # {}
        /\ (Done /\ mock = "scripted" /\ batch_size = 2 /\ fail_at = 2
                 /\ Len(questions_list) = 5) =>
              /\ Len(result.recommendations) = 5
              /\ \A q \in Eligible : Cardinality(RecsFor(q)) = 1
              /\ result.batch_mode = TRUE

(***************************************************************************)
(* C3: when every batch call is answered with one entry per item, the      *)
(* number of recommendations of run_audit_batched equals the number of     *)
(* non-stem rows with text, for every batch size from 1 to 10.             *)
(***************************************************************************)
OnePerItemOracle ==
    \A i \in DOMAIN calls :
        calls[i].kind = "batch" /\ calls[i].ok /\ calls[i].n = Len(calls[i].items)

C3_CountMatches ==
    (Done /\ entry = "run_audit_batched" /\ OnePerItemOracle
          /\ batch_size \in MinBatchSize..MaxBatchSize) =>
        Len(result.recommendations) = Cardinality(EligibleRows)

C3_Witness ==
    /\ Done /\ entry = "run_audit_batched" /\ OnePerItemOracle
    /\ batch_size = 3
    /\ Len(questions_df) = 5
    /\ Cardinality(EligibleRows) = 4
    /\ Len(result.recommendations) = 4
    /\ Len(calls) = 2

(***************************************************************************)
(* C4: at the end of a run the coverage counts of every requested          *)
(* dimension add up to the number of recommendations produced for it.      *)
(***************************************************************************)
RecsOfDim(d) == {i \in DOMAIN recommendations : d \in DOMAIN recommendations[i].mapped}

C4_CoverageSum ==
    (Done /\ entry \in ClassifyEntryPoints) =>
        \A d \in Range(dimensions) :
            SumFn(result.coverage[d]) = Cardinality(RecsOfDim(d))

(***************************************************************************)
(* C5: in every result the gaps of a dimension are the reference codes of  *)
(* that dimension without the codes whose count is positive.               *)
(***************************************************************************)
C5_GapsAreUncovered ==
    (Done /\ entry \in ClassifyEntryPoints) =>
        \A d \in Range(dimensions) :
            result.gaps[d] = RefCodes(d) \ Positive(result.coverage[d])

C5_Witness ==
    /\ Done /\ entry = "run_audit_batched"
    /\ result.gaps["competency"] = {"T2", "T3"}
    /\ DOMAIN result.coverage["competency"] = {"T1", "X9"}

(***************************************************************************)
(* C6: in every result the gap set and the set of codes in the coverage    *)
(* table are disjoint and their union is exactly the reference codes.      *)
(***************************************************************************)
C6_Partition ==
    (Done /\ entry \in {"run_audit_batched", "run_audit_batched_multi"}) =>
        \A d \in Range(dimensions) :
            /\ result.gaps[d] \cap DOMAIN result.coverage[d] = {}
            /\ result.gaps[d] \cup DOMAIN result.coverage[d] = RefCodes(d)

\* the codes of the recommendations that the engine counts for dimension d
CountedCodes(d) ==
    LET carried == {recommendations[i].mapped[d] : i \in RecsOfDim(d)}
    IN CASE entry = "run_audit_batched" -> carried
         [] entry = "run_audit_batched_multi" -> carried \ {""}
         [] OTHER -> carried \cap OBJECTIVES_REFERENCE

(***************************************************************************)
(* C6 as amended: the gap set and the set of codes with a positive count   *)
(* are disjoint and their union is the reference codes together with the   *)
(* counted codes of the recommendations, so a code outside the reference   *)
(* that the oracle returned sits in the coverage table next to them.       *)
(***************************************************************************)
C6_PartitionWithReturnedCodes ==
    (Done /\ entry \in ClassifyEntryPoints) =>
        \A d \in Range(dimensions) :
            /\ result.gaps[d] \cap Positive(result.coverage[d]) = {}
            /\ result.gaps[d] \cup Positive(result.coverage[d])
                  = RefCodes(d) \cup CountedCodes(d)

C6_Witness ==
    /\ Done /\ entry = "run_audit_batched"
    /\ result.coverage["competency"] = [c \in {"X9"} |-> 2]
    /\ result.gaps["competency"] = {"T1", "T2", "T3"}

(***************************************************************************)
(* C7: reference T1, T2, T3, three eligible questions, oracle answers      *)
(* T1, T1, T2 with confidences 0.9, 0.8, 0.6: coverage is                  *)
(* {T1: 2, T2: 1, T3: 0}, gaps are [T3], average confidence is about 0.767.*)
(***************************************************************************)
ScenarioA ==
    /\ Done /\ entry = "run_audit_batched" /\ mock = "scripted"
    /\ Len(questions_list) = 3
    /\ reference_data["competency"] = {"T1", "T2", "T3"}

About(x, y) == x - y <= 5 /\ y - x <= 5

C7_ScenarioA ==
    ScenarioA =>
        /\ result.coverage["competency"] =
              [c \in {"T1", "T2", "T3"} |-> IF c = "T1" THEN 2 ELSE IF c = "T2" THEN 1 ELSE 0]
        /\ result.gaps["competency"] = {"T3"}
        /\ About(MappingToolSummary(result, "competency").average_confidence, 767)

(***************************************************************************)
(* C7 as amended: in that scenario the coverage table is {T1: 2, T2: 1}    *)
(* and holds no entry for T3, gaps are [T3], and the summary's average     *)
(* confidence is 0.77 (0.7667 rounded to two decimals).                    *)
(***************************************************************************)
C7_ScenarioA_NoZeroEntry ==
    ScenarioA =>
        /\ result.coverage["competency"] =
              [c \in {"T1", "T2"} |-> IF c = "T1" THEN 2 ELSE 1]
        /\ result.gaps["competency"] = {"T3"}
        /\ MappingToolSummary(result, "competency").topics_covered = 2
        /\ MappingToolSummary(result, "competency").average_confidence = 770

C7_Witness ==
    /\ ScenarioA /\ fail_at = 0 /\ batch_size = 2 /\ Len(calls) = 2
    /\ Len(result.recommendations) = 3

(***************************************************************************)
(* C8: when a batch response is parsed and processed, its k-th entry goes  *)
(* to the k-th batch item whatever question_id it echoes; items beyond the *)
(* last entry get nothing and no further call; entries beyond the last     *)
(* item produce nothing.                                                   *)
(***************************************************************************)
LastCall == calls[Len(calls)]

C8_Positional ==
    /\ (last.kind = "batch" /\ LastCall.ok
            /\ entry \in {"run_audit_batched", "rate_existing_mappings"}) =>
          LET ms == last.response.mappings
              b == last.items
              base == last.rec_base
              n == Min(Len(ms), Len(b))
          IN /\ pc # "fallback"
             /\ IF entry = "run_audit_batched"
                THEN /\ Len(recommendations) = base + n
                     /\ \A k \in 1..n :
                           /\ recommendations[base + k].question_num = b[k]
                           /\ recommendations[base + k].mapped["competency"]
                                 = Get(ms[k].code, "")
                     /\ \A k \in (n + 1)..Len(b) : RecsFor(b[k]) = {}
                ELSE /\ Len(all_ratings) = base + n
                     /\ \A k \in 1..n :
                           /\ all_ratings[base + k].question_num = b[k]
                           /\ all_ratings[base + k].rating = Get(ms[k].rating, "unknown")
                     /\ \A k \in (n + 1)..Len(b) : RatingsFor(b[k]) = {}
    /\ \A i \in DOMAIN calls :
          (calls[i].kind = "batch" /\ calls[i].ok) =>
              \A q \in Range(calls[i].items) : SingleCallsOf(q) = {}

C8_Witness ==
    /\ last.kind = "batch" /\ LastCall.ok /\ entry = "run_audit_batched"
    /\ Len(last.items) = 2
    /\ Len(last.response.mappings) = 2
    /\ last.response.mappings[2].question_id = last.items[1]
    /\ recommendations[last.rec_base + 2].question_num = last.items[2]

(***************************************************************************)
(* C9: an entry without confidence is accepted with confidence 0.0 and an  *)
(* entry without justification gets the empty string, on the batch path,   *)
(* on the single-item fallback path (also for an object with no fields)    *)
(* and on the multi-dimension path.                                        *)
(***************************************************************************)
ConfOrZero(sub) == IF sub.kind = "dict" THEN GetConf(sub.conf, 0) ELSE 0

C9_Defaults ==
    /\ (last.kind = "batch" /\ LastCall.ok /\ entry = "run_audit_batched") =>
          \A k \in 1..Min(Len(last.response.mappings), Len(last.items)) :
              LET m == last.response.mappings[k]
                  rec == recommendations[last.rec_base + k]
              IN /\ m.conf = NoConf => rec.confidence = 0
                 /\ m.just = Absent => rec.justification = ""
    /\ (last.kind = "single" /\ last.response.kind = "object"
            /\ entry \in {"run_audit_batched", "run_audit_batched_multi"}) =>
          /\ Len(recommendations) = last.rec_base + 1
          /\ last.response.entry.conf = NoConf =>
                recommendations[last.rec_base + 1].confidence = 0
          /\ last.response.entry.just = Absent =>
                recommendations[last.rec_base + 1].justification = ""
    /\ (last.kind = "batch" /\ LastCall.ok /\ entry = "run_audit_batched_multi") =>
          \A k \in 1..Min(Len(last.response.mappings), Len(last.items)) :
              LET m == last.response.mappings[k]
                  rec == recommendations[last.rec_base + k]
              IN /\ rec.confidence =
                      SumSeq([i \in 1..Len(dimensions) |-> ConfOrZero(m.sub[dimensions[i]])])
                          \div Len(dimensions)
                 /\ m.just = Absent => rec.justification = ""

(***************************************************************************)
(* C10: in a rating run a batch whose call raises or returns unparsable    *)
(* JSON is re-issued item by item, so a question is absent from the        *)
(* ratings only if both its batch call and its single-item call failed.    *)
(***************************************************************************)
C10_RatingFallback ==
    (Done /\ entry \in RatingEntryPoints) =>
        /\ \A i \in DOMAIN calls : RaisedOrNotJson(i) =>
              \A q \in Range(calls[i].items) : SingleCallsOf(q) # {}
        /\ \A q \in Eligible : RatingsFor(q) = {} => BothFailed(q)

(***************************************************************************)
(* C11: in the summary of a rating run the three counts add up to the      *)
(* number of rated questions: correct + partially_correct + incorrect =    *)
(* total_rated, whatever rating value the oracle returned for a question   *)
(* (a missing or an unexpected value included).                            *)
(***************************************************************************)
C11_SummaryAddsUp ==
    (Done /\ entry \in RatingEntryPoints) =>
        result.summary.correct + result.summary.partially_correct
            + result.summary.incorrect = result.summary.total_rated

(***************************************************************************)
(* C12: the accuracy_rate of a rating summary is correct / total_rated,    *)
(* and it is 0 when no question was rated (total_rated = 0), where         *)
(* nothing is divided.                                                     *)
(***************************************************************************)
C12_AccuracyRate ==
    (Done /\ entry \in RatingEntryPoints) =>
        LET s == result.summary
        IN IF s.total_rated = 0
           THEN s.accuracy_rate = <<0, 1>>
           ELSE /\ s.accuracy_rate[2] > 0
                /\ s.accuracy_rate[1] * s.total_rated = s.correct * s.accuracy_rate[2]
                /\ s.correct = Cardinality({i \in DOMAIN all_ratings :
                                               RatingOf(entry, all_ratings[i]) = "correct"})

\* a rating run whose only oracle call failed: nothing is rated and the rate is 0
C12_Witness ==
    /\ Done /\ entry \in RatingEntryPoints
    /\ calls # <<>>
    /\ result.summary.total_rated = 0
    /\ result.summary.accuracy_rate = <<0, 1>>

(***************************************************************************)
(* C13: the recommendation list of a rating run holds one entry for every  *)
(* rated question whose rating is not 'correct' and none for a question    *)
(* rated 'correct'; in the single-dimension rating runs each entry carries *)
(* the code the oracle suggested for that question as the replacement.     *)
(* Scenario C: the oracle rates 4 questions correct, incorrect,            *)
(* partially_correct, correct; the list has length 2 and the summary is    *)
(* {correct: 2, partially_correct: 1, incorrect: 1, accuracy_rate: 1/2}.   *)
(***************************************************************************)
NotCorrect == {i \in DOMAIN all_ratings : RatingOf(entry, all_ratings[i]) # "correct"}

RatingRecsFor(q) ==
    {j \in DOMAIN result.recommendations : result.recommendations[j].question_num = q}

\* the code a recommendation of a single-dimension rating run proposes
Replacement(rec) ==
    IF entry = "rate_mappings" THEN rec.suggested_mapping ELSE rec.recommended_mapping

\* four questions, and the scripted oracle has answered about each of them
ScenarioC ==
    /\ entry \in {"rate_existing_mappings", "rate_mappings"}
    /\ mock = "scripted" /\ fail_at = 0
    /\ Len(questions_list) = 4
    /\ \A q \in Eligible : BatchCallOf(q) # {}

C13_NonCorrectRecommended ==
    (Done /\ entry \in RatingEntryPoints) =>
        /\ Len(result.recommendations) = Cardinality(NotCorrect)
        /\ \A i \in DOMAIN all_ratings :
              LET q == all_ratings[i].question_num
              IN IF i \in NotCorrect
                 THEN /\ Cardinality(RatingRecsFor(q)) = 1
                      /\ entry # "rate_existing_mappings_multi" =>
                            \A j \in RatingRecsFor(q) :
                                Replacement(result.recommendations[j])
                                    = all_ratings[i].suggested_mapping
                 ELSE RatingRecsFor(q) = {}
        /\ ScenarioC =>
              /\ Len(result.recommendations) = 2
              /\ result.summary = [total_rated |-> 4, correct |-> 2,
                                   partially_correct |-> 1, incorrect |-> 1,
                                   accuracy_rate |-> <<1, 2>>]

C13_Witness ==
    /\ Done /\ ScenarioC
    /\ Len(result.recommendations) = 2
    /\ \A j \in DOMAIN result.recommendations :
          Replacement(result.recommendations[j]) = OtherCode(dimensions[1])

(***************************************************************************)
(* C14: in a multi-dimension rating run the overall_rating recorded for a  *)
(* question is the worst of its per-dimension ratings (incorrect is worse  *)
(* than partially_correct, which is worse than correct), so a question     *)
(* with a dimension that is not rated correct is not counted as overall    *)
(* correct and has an entry in the recommendation list.                    *)
(***************************************************************************)
ThreeRatings == {"correct", "partially_correct", "incorrect"}

Worst(rs) ==
    IF "incorrect" \in rs THEN "incorrect"
    ELSE IF "partially_correct" \in rs THEN "partially_correct"
    ELSE "correct"

DimRatings(r) == {r.dimension_ratings[d].rating : d \in DOMAIN r.dimension_ratings}

C14_OverallIsWorst ==
    (Done /\ entry = "rate_existing_mappings_multi") =>
        \A i \in DOMAIN all_ratings :
            LET r == all_ratings[i]
            IN (DOMAIN r.dimension_ratings = Range(dimensions)
                    /\ DimRatings(r) \subseteq ThreeRatings) =>
                  /\ r.overall_rating = Worst(DimRatings(r))
                  /\ DimRatings(r) # {"correct"} =>
                        /\ RatingRecsFor(r.question_num) # {}
                        /\ result.summary.correct
                              <= Cardinality({j \in DOMAIN all_ratings :
                                    DimRatings(all_ratings[j]) = {"correct"}})

(***************************************************************************)
(* C15: in a multi-dimension classification run every recommendation of    *)
(* the result carries one mapped code for each requested dimension, also   *)
(* when the question was classified by the single-item fallback after its  *)
(* batch call failed.                                                      *)
(***************************************************************************)
C15_CodePerDimension ==
    (Done /\ entry = "run_audit_batched_multi") =>
        \A i \in DOMAIN result.recommendations :
            DOMAIN result.recommendations[i].mapped = Range(dimensions)

(***************************************************************************)
(* C16: after apply_and_export every row of the dataset whose identifier   *)
(* equals the question_num of a selected recommendation holds that         *)
(* recommendation's code, confidence and justification (when several       *)
(* selected recommendations name the row, those of the last one), also     *)
(* when the column did not exist and also when the code is empty.          *)
(***************************************************************************)
ExportDone == export.status = "exported"

\* the positions of selected_indices that select a recommendation naming id
SelectedFor(id) ==
    {p \in DOMAIN export.selected_indices :
        /\ export.selected_indices[p] \in 0..(Len(export.recommendations) - 1)
        /\ export.recommendations[export.selected_indices[p] + 1].question_num = id}

LastSelectedFor(id) ==
    LET p == CHOOSE x \in SelectedFor(id) : \A y \in SelectedFor(id) : y <= x
    IN export.recommendations[export.selected_indices[p] + 1]

C16_SelectedApplied ==
    ExportDone =>
        \A i \in DOMAIN export.output :
            LET row == export.output[i]
            IN SelectedFor(row.id) # {} =>
                  /\ row.code = Get(LastSelectedFor(row.id).code, "")
                  /\ row.confidence_score = GetConf(LastSelectedFor(row.id).confidence, 0)
                  /\ row.justification = Get(LastSelectedFor(row.id).justification, "")

(***************************************************************************)
(* C17: apply_and_export leaves the code, confidence and justification of  *)
(* a row unchanged when the row's identifier matches no selected           *)
(* recommendation; a recommendation whose position is not in               *)
(* selected_indices changes no row.                                        *)
(***************************************************************************)
C17_OthersUntouched ==
    ExportDone =>
        \A i \in DOMAIN export.output :
            SelectedFor(export.output[i].id) = {} =>
                export.output[i] = export.question_csv[i]

(***************************************************************************)
(* C18: apply_and_export is idempotent: applying the same recommendations  *)
(* with the same selected_indices to the dataset that a first application  *)
(* produced yields that dataset again, column by column.                   *)
(***************************************************************************)
Reapplied == export.status = "reapplied"

C18_Idempotent ==
    Reapplied =>
        /\ Len(export.output) = Len(export.question_csv)
        /\ \A i \in DOMAIN export.output :
              /\ export.output[i].id = export.question_csv[i].id
              /\ export.output[i].code = export.question_csv[i].code
              /\ export.output[i].confidence_score = export.question_csv[i].confidence_score
              /\ export.output[i].justification = export.question_csv[i].justification

\* a second application of two selected recommendations after a first one
\* that changed a row which already held a mapping
C18_Witness ==
    /\ Reapplied
    /\ Len(export.selected_indices) = 2
    /\ \E i \in DOMAIN export.original :
          /\ export.original[i] = Mapped(1)
          /\ SelectedFor(1) # {}
          /\ export.output[i] # export.original[i]
          /\ export.output[i].confidence_score = 900

(***************************************************************************)
(* C19: a row whose question number is marked '(Stem)' is in no batch      *)
(* prompt and in no single-item prompt sent to the oracle, and in no       *)
(* recommendation and no rating, in classification runs (Mode A) and in    *)
(* rating runs (Mode B); a file that holds only stem rows leads to no      *)
(* oracle call.                                                            *)
(***************************************************************************)
StemRows == {i \in DOMAIN questions_df : questions_df[i] = "stem"}

OnlyStems == questions_df # <<>> /\ StemRows = DOMAIN questions_df

C19_StemsNeverSent ==
    /\ \A c \in DOMAIN calls : Range(calls[c].items) \cap StemRows = {}
    /\ \A i \in DOMAIN recommendations : recommendations[i].question_num \notin StemRows
    /\ \A i \in DOMAIN all_ratings : all_ratings[i].question_num \notin StemRows
    /\ Done =>
          \A i \in DOMAIN result.recommendations :
              result.recommendations[i].question_num \notin StemRows
    /\ OnlyStems => calls = <<>> /\ api_calls = 0

\* a classification run over a file with a stem row that issued a batch call
\* and a single-item call
C19_Witness ==
    /\ Done /\ StemRows # {}
    /\ entry = "run_audit_batched"
    /\ \E c \in DOMAIN calls : calls[c].kind = "batch"
    /\ \E c \in DOMAIN calls : calls[c].kind = "single"
    /\ result.recommendations # <<>>

\* a rating run over a file that holds only stem rows
C19_WitnessOnlyStems == Done /\ OnlyStems /\ entry \in RatingEntryPoints

(***************************************************************************)
(* C20: whatever batch size a caller supplies (zero, negative or above 10), *)
(* every batch the engine builds holds between 1 and 10 questions, on      *)
(* every entry point that starts a batched mapping or rating run.          *)
(***************************************************************************)
C20_BatchWithinLimits ==
    \A c \in DOMAIN calls :
        calls[c].kind = "batch" =>
            Len(calls[c].items) \in MinBatchSize..MaxBatchSize

(***************************************************************************)
(* C21: a run whose reference file yields no taxonomy entry for the        *)
(* requested dimension ends with an error before any oracle call is        *)
(* issued; it never returns a result.                                      *)
(***************************************************************************)
NoTaxonomy ==
    /\ entry \in {"run_audit_batched", "run_audit_batched_multi"}
    /\ \E d \in Range(dimensions) : reference_data[d] = {}

C21_EmptyReferenceRejected ==
    NoTaxonomy => calls = <<>> /\ ~ Done

(***************************************************************************)
(* C22: once a classification run has issued its first oracle call it      *)
(* ends by returning a result: no outcome of a batch call or of a          *)
(* single-item fallback call (exception, text that is not JSON, JSON       *)
(* without the expected key, short array, malformed entry, JSON value that *)
(* is not an object) makes the run raise.                                  *)
(***************************************************************************)
C22_NeverRaises ==
    (entry \in ClassifyEntryPoints /\ calls # <<>>) => pc # "raised"

(***************************************************************************)
(* C23: two engine runs followed by their exports, interleaved in any      *)
(* order and writing into the same output folder, each end with the        *)
(* output file content they produce when executed alone; the file of one   *)
(* run is not overwritten or replaced by the other's.                      *)
(***************************************************************************)
Returned(p) == worker[p].at = "returned"

C23_ConcurrentExportsIntact ==
    \A p \in Workers :
        Returned(p) =>
            /\ worker[p].output_path \in DOMAIN output_folder
            /\ output_folder[worker[p].output_path] = AloneContent(worker[p])


(***************************************************************************)
(* C24: whenever an eligible question is absent from the recommendations   *)
(* of a classification run, the result has mapped_questions smaller than   *)
(* total_questions.                                                        *)
(***************************************************************************)
AbsentQuestions == {q \in Eligible : RecsFor(q) = {}}

C24_AbsenceIsVisible ==
    (Done /\ entry = "run_audit_batched" /\ AbsentQuestions # {}) =>
        result.mapped_questions < result.total_questions


(***************************************************************************)
(* C25: when no oracle call fails, run_audit_batched over n eligible       *)
(* questions with batch size b (b >= 1) issues exactly ceil(n / b) oracle  *)
(* calls, the k-th call holding the k-th batch of b questions, which is    *)
(* fewer than n calls whenever b > 1 and n > 1.                            *)
(***************************************************************************)
CeilDiv(n, b) == (n + b - 1) \div b

NoCallFailed == \A i \in DOMAIN calls : calls[i].ok

KthBatch(k) ==
    SubSeq(questions_list, (k - 1) * batch_size + 1,
           Min(k * batch_size, Len(questions_list)))

C25_OneCallPerBatch ==
    (Done /\ entry = "run_audit_batched" /\ batch_size >= 1 /\ NoCallFailed) =>
        /\ Len(calls) = CeilDiv(Len(questions_list), batch_size)
        /\ \A k \in DOMAIN calls :
               calls[k].kind = "batch" /\ calls[k].items = KthBatch(k)
        /\ (batch_size > 1 /\ Len(questions_list) > 1) =>
               Len(calls) < Len(questions_list)

C25_Witness ==
    /\ Done /\ entry = "run_audit_batched" /\ NoCallFailed
    /\ batch_size = 2 /\ Len(questions_list) = 5 /\ Len(calls) = 3


(***************************************************************************)
(* C26: in a batched classification run a pause follows every oracle call: *)
(* between two consecutive calls the run sleeps at least the per-call      *)
(* pause, also between a failed batch call and the first single-item call  *)
(* of its fallback, and at least the between-batch pause before the first  *)
(* call of the next batch.                                                 *)
(***************************************************************************)
C26_PausedBetweenCalls ==
    entry \in FallbackEntryPoints =>
        \A i \in DOMAIN calls :
            i < Len(calls) =>
                /\ calls[i].slept >= ItemPause
                /\ calls[i + 1].kind = "batch" => calls[i].slept >= BatchPause


(***************************************************************************)
(* C27: in the result of a batched classification run no question number   *)
(* appears in more than one recommendation and the coverage counts of a    *)
(* dimension add up to at most the number of eligible questions, whatever  *)
(* the oracle answered.                                                    *)
(***************************************************************************)
RecommendedTwice == {q \in Eligible : Cardinality(RecsFor(q)) > 1}

C27_NoQuestionTwice ==
    (Done /\ entry \in FallbackEntryPoints) =>
        /\ RecommendedTwice = {}
        /\ \A d \in Range(dimensions) :
               SumFn(result.coverage[d]) <= Cardinality(Eligible)


(***************************************************************************)
(* C28: at the end of every run that reports token usage, api_calls equals *)
(* the number of oracle calls the run issued: batch calls, answered or     *)
(* not, and single-item fallback calls.                                    *)
(***************************************************************************)
TokenUsageEntryPoints ==
    {"run_audit_batched", "run_audit_batched_multi",
     "rate_existing_mappings", "rate_existing_mappings_multi"}

C28_ApiCallsCounted ==
    (Done /\ entry \in TokenUsageEntryPoints) => result.api_calls = Len(calls)


(***************************************************************************)
(* C29: in a classification run in which every eligible question receives  *)
(* exactly one recommendation, mapped_questions equals total_questions,    *)
(* whatever stem rows and blank rows the file holds.                       *)
(***************************************************************************)
OnePerEligible == \A q \in Eligible : Cardinality(RecsFor(q)) = 1

C29_AllMappedIsVisible ==
    (Done /\ entry \in {"run_audit_batched", "map_questions"} /\ OnePerEligible) =>
        result.mapped_questions = result.total_questions


(***************************************************************************)
(* C30: apply_and_export ignores every entry of selected_indices that is   *)
(* not a position of the recommendations list: the call raises no error    *)
(* and its output is the output of the valid entries alone.                *)
(***************************************************************************)
ValidPosition(idx) == 0 <= idx /\ idx < Len(export.recommendations)

ValidEntries == SelectSeq(export.selected_indices, ValidPosition)

C30_InvalidIndexIgnored ==
    export.status # "none" =>
        /\ export.status # "raised"
        /\ export.output = ApplySelected(export.engine, export.question_csv,
                                         export.recommendations, ValidEntries).df

====
